---- MODULE Spec2Model ----
(***************************************************************************)
(* A model of permutation.py: the class `permutation` (used in the file    *)
(* under the name `perm`), an element of the symmetric group S_n stored    *)
(* as a lookup table.  A permutation object is modelled by its `_lookup`   *)
(* list, a TLA+ sequence whose i-th entry is the image of the point i.     *)
(* Python lists are 0-based and accept negative indices; sequences here    *)
(* are 1-based, and PyIndex does the conversion.                           *)
(*                                                                         *)
(* Results of calls are records [kind |-> ..., val |-> ...]; a raised      *)
(* exception is a record whose kind is "error" and whose val is the        *)
(* exception's type.                                                       *)
(***************************************************************************)
EXTENDS Integers, Sequences, FiniteSets, TLC

\* Points of the constructor's cycles range over 1..MaxPoint.
MaxPoint == 3
\* The cycles handed to the constructor hold at most MaxArgLen points in all.
MaxArgLen == 4
\* Exponents range over 0..MaxPow.
MaxPow == 3
\* Points of the permutations whose order is computed range over 1..MaxOrderPoint.
MaxOrderPoint == 5

VARIABLES
    a,       \* a permutation object (its _lookup), <<>> before construction
    b,       \* a second permutation object
    op,      \* the last completed call: its name, arguments and result
    args,    \* the cycles handed to the constructor
    pc,      \* position inside the running call
    result,  \* the local `result` of order
    order    \* the local `order` of order

vars == <<a, b, op, args, pc, result, order>>

------------------------------------------------------------------------------
(* Python built-ins used by the source *)

Range(s) == {s[i] : i \in 1..Len(s)}

Max(S) == CHOOSE m \in S : \A x \in S : x <= m

\* s[j] for a Python list or tuple s and a 0-based, possibly negative, j.
PyIndex(s, j) ==
    IF j >= 0 /\ j < Len(s) THEN [kind |-> "int", val |-> s[j + 1]]
    ELSE IF j < 0 /\ j >= -Len(s) THEN [kind |-> "int", val |-> s[Len(s) + j + 1]]
    ELSE [kind |-> "error", val |-> "IndexError"]

\* s.index(v): the 0-based position of the first occurrence of v in s.
index(s, v) ==
    IF v \in Range(s)
    THEN [kind |-> "int",
          val |-> (CHOOSE i \in 1..Len(s) : s[i] = v /\ \A j \in 1..(i - 1) : s[j] # v) - 1]
    ELSE [kind |-> "error", val |-> "ValueError"]

\* The characters of the decimal digits.
Digits == <<"0", "1", "2", "3", "4", "5", "6", "7", "8", "9">>

\* str(x) for an integer 0 <= x <= 99, as a sequence of characters.
str(x) ==
    IF x < 10 THEN <<Digits[x + 1]>>
    ELSE <<Digits[(x \div 10) + 1], Digits[(x % 10) + 1]>>

\* sep.join(items): items is a sequence of strings.
RECURSIVE join(_, _)
join(sep, items) ==
    IF Len(items) = 0 THEN <<>>
    ELSE IF Len(items) = 1 THEN items[1]
    ELSE items[1] \o sep \o join(sep, Tail(items))

\* lst * n : the list repeated n times (empty when n <= 0).
RECURSIVE repeat(_, _)
repeat(lst, n) == IF n <= 0 THEN <<>> ELSE lst \o repeat(lst, n - 1)

------------------------------------------------------------------------------
(* permutation.__init__ *)

\* One pass of the inner loop body: the image of `res` under one cycle.
\* A point the cycle does not contain raises ValueError, which is passed over.
\* Variant: the last element of a cycle is left where it is.
CycleStepNoWrap(cycle, res) ==
    LET i == index(cycle, res)
    IN  IF i.kind = "error" THEN res
        ELSE IF i.val + 1 < Len(cycle) THEN cycle[i.val + 2] ELSE res

\* The body of the try: cycle[cycle.index(result) - len(cycle) + 1].
CycleStep(cycle, res) ==
    LET i == index(cycle, res)
    IN  IF i.kind = "error" THEN res
        ELSE PyIndex(cycle, i.val - Len(cycle) + 1).val

\* Variant: for cycle in cycles, the first cycle applied first.
RECURSIVE ApplyForward(_, _, _)
ApplyForward(cycles, k, res) ==
    IF k = 0 THEN res
    ELSE CycleStep(cycles[k], ApplyForward(cycles, k - 1, res))

\* for cycle in reversed(cycles): the cycles k, k-1, ..., 1 applied in turn.
RECURSIVE ApplyReversed(_, _, _)
ApplyReversed(cycles, k, res) ==
    IF k = 0 THEN res
    ELSE ApplyReversed(cycles, k - 1, CycleStep(cycles[k], res))

\* The lookup table built by the constructor from a non-empty sequence of
\* non-empty cycles.
__init__(cycles) ==
    LET size == Max({Max(Range(cycles[c])) : c \in 1..Len(cycles)})
    IN  [i \in 1..size |-> ApplyReversed(cycles, Len(cycles), i)]

\* perm(*cycles): max() of an empty sequence raises ValueError.
perm(cycles) ==
    IF Len(cycles) = 0 \/ \E c \in 1..Len(cycles) : Len(cycles[c]) = 0
    THEN [kind |-> "error", val |-> "ValueError"]
    ELSE [kind |-> "perm", val |-> __init__(cycles)]

------------------------------------------------------------------------------
(* permutation.__call__ and __len__ *)

__len__(self) == Len(self)

__call__(self, x) == PyIndex(self, x - 1)

------------------------------------------------------------------------------
(* permutation._getcycles *)

\* The inner while loop.  A loop that has appended __len__(self) elements
\* without meeting `start` again has repeated an element and never ends:
\* halted is FALSE for it, as it is for an element outside 1..__len__(self),
\* which no table of the constructor holds.
RECURSIVE FollowCycle(_, _, _, _, _, _)
FollowCycle(self, start, cycle, not_done, next_element, budget) ==
    IF next_element = start
    THEN [cycle |-> cycle, not_done |-> not_done, halted |-> TRUE]
    ELSE IF budget = 0 \/ next_element \notin 1..Len(self)
    THEN [cycle |-> cycle, not_done |-> not_done, halted |-> FALSE]
    ELSE FollowCycle(self, start, Append(cycle, next_element),
                     [not_done EXCEPT ![next_element] = FALSE],
                     __call__(self, next_element).val, budget - 1)

\* Variant: the highest point not yet listed.
FirstNotDoneLast(not_done) ==
    CHOOSE i \in 1..Len(not_done) :
        not_done[i] /\ \A j \in (i + 1)..Len(not_done) : ~not_done[j]

\* not_done.index(True) + 1
FirstNotDone(not_done) ==
    CHOOSE i \in 1..Len(not_done) : not_done[i] /\ \A j \in 1..(i - 1) : ~not_done[j]

\* The filter that closes an iteration of the outer loop.
\* Variant: every one-cycle dropped, the one at the last point too.
KeepCycleNoLast(self, cycle, simplify) ==
    ~simplify \/ Len(cycle) > 1

\* if not simplify or len(cycle) > 1 or cycle[0] == len(self)
KeepCycle(self, cycle, simplify) ==
    ~simplify \/ Len(cycle) > 1 \/ cycle[1] = __len__(self)

\* The outer while loop.
RECURSIVE CollectCycles(_, _, _, _)
CollectCycles(self, simplify, not_done, cycles) ==
    IF ~\E i \in 1..Len(not_done) : not_done[i]
    THEN [cycles |-> cycles, halted |-> TRUE]
    ELSE LET start == FirstNotDone(not_done)
             f == FollowCycle(self, start, <<start>>,
                              [not_done EXCEPT ![start] = FALSE],
                              __call__(self, start).val, __len__(self))
         IN  IF ~f.halted THEN [cycles |-> cycles, halted |-> FALSE]
             ELSE CollectCycles(self, simplify, f.not_done,
                                IF KeepCycle(self, f.cycle, simplify)
                                THEN Append(cycles, f.cycle) ELSE cycles)

\* The whole run of _getcycles: the cycles and whether the loops ended.
GetCyclesRun(self, simplify) ==
    CollectCycles(self, simplify, [i \in 1..__len__(self) |-> TRUE], <<>>)

_getcycles(self, simplify) == GetCyclesRun(self, simplify).cycles

------------------------------------------------------------------------------
(* __str__, __eq__, __ne__, __mul__, __pow__, sgn *)

__str__(self) ==
    LET cs == _getcycles(self, TRUE)
    IN  join(<<>>, [c \in 1..Len(cs) |->
                      join(join(<<" ">>, [i \in 1..Len(cs[c]) |-> str(cs[c][i])]),
                           << <<"(">>, <<")">> >>)])

__eq__(self, other) == __str__(self) = __str__(other)

__ne__(self, other) == ~__eq__(self, other)

\* Variant: the cycles of other ahead of the cycles of self.
MulLeftFirst(self, other) ==
    perm(_getcycles(other, TRUE) \o _getcycles(self, TRUE))

\* perm(*(self._getcycles() + other._getcycles()))
__mul__(self, other) ==
    perm(_getcycles(self, TRUE) \o _getcycles(other, TRUE))

\* perm(*(self._getcycles() * idx))
__pow__(self, idx) ==
    perm(repeat(_getcycles(self, TRUE), idx))

\* Variant: every cycle counted, whatever its length.
SgnCountAll(self) ==
    LET cs == _getcycles(self, TRUE)
        even_cycles == {c \in 1..Len(cs) : TRUE}
    IN  -2 * (Cardinality(even_cycles) % 2) + 1

\* -2 * (len(even_cycles) % 2) + 1
sgn(self) ==
    LET cs == _getcycles(self, TRUE)
        even_cycles == {c \in 1..Len(cs) : ~(Len(cs[c]) % 2 # 0)}
    IN  -2 * (Cardinality(even_cycles) % 2) + 1

------------------------------------------------------------------------------
(* Inputs *)

\* The sequences of k distinct points of 1..n.
RECURSIVE Injective(_, _)
Injective(n, k) ==
    IF k = 0 THEN {<<>>}
    ELSE UNION {{Append(s, x) : x \in (1..n) \ Range(s)} : s \in Injective(n, k - 1)}

\* A cycle: a non-empty sequence of distinct points of 1..n.
CyclesOver(n) == UNION {Injective(n, k) : k \in 1..n}

\* The sequences of cycles that hold at most `len` points in all.
RECURSIVE ArgsWithin(_)
ArgsWithin(len) ==
    {<<>>} \cup
    UNION {{<<c>> \o cs : cs \in ArgsWithin(len - Len(c))} :
              c \in {c \in CyclesOver(MaxPoint) : Len(c) <= len}}

\* The constructor's arguments: one or more cycles, which may share points.
CycleSeqs == ArgsWithin(MaxArgLen) \ {<<>>}

\* The objects perm(*cycles) builds from those arguments.
Constructed == {perm(cs).val : cs \in CycleSeqs}

\* The bijections of 1..m, for every m in 1..n.
Bijections(n) == UNION {Injective(m, m) : m \in 1..n}

\* The two permutations of order's doctest.
DocExamples == { << <<5>> >>, << <<1, 3>>, <<2, 5>>, <<7, 4, 6>> >> }

\* Constructor arguments that reach every permutation of 1..m, m <= MaxOrderPoint:
\* the disjoint cycles of each, and the doctest's.
OrderArgs == {_getcycles(p, TRUE) : p \in Bijections(MaxOrderPoint)} \cup DocExamples

NoOp == [name |-> "none"]

------------------------------------------------------------------------------
(* The library in use: objects built by the constructor, and calls on them *)

Init ==
    /\ a \in Constructed
    /\ b \in Constructed
    /\ op = NoOp
    /\ args = <<>>
    /\ pc = "idle"
    /\ result = <<>>
    /\ order = 0

Reg(r) == IF r = "a" THEN a ELSE b

\* a(x)
Call(x) ==
    /\ pc = "idle"
    /\ op' = [name |-> "call", self |-> a, arg |-> x, ret |-> __call__(a, x)]
    /\ UNCHANGED <<a, b, args, pc, result, order>>

\* a = l * r ; a raised exception leaves a as it was.
Mul(l, r) ==
    /\ pc = "idle"
    /\ LET ret == __mul__(Reg(l), Reg(r))
       IN  /\ op' = [name |-> "mul", self |-> Reg(l), other |-> Reg(r), ret |-> ret]
           /\ a' = IF ret.kind = "perm" THEN ret.val ELSE a
    /\ UNCHANGED <<b, args, pc, result, order>>

\* a = r ** k
Pow(r, k) ==
    /\ pc = "idle"
    /\ LET ret == __pow__(Reg(r), k)
       IN  /\ op' = [name |-> "pow", self |-> Reg(r), arg |-> k, ret |-> ret]
           /\ a' = IF ret.kind = "perm" THEN ret.val ELSE a
    /\ UNCHANGED <<b, args, pc, result, order>>

\* a._getcycles(simplify)
GetCycles(simplify) ==
    /\ pc = "idle"
    /\ LET run == GetCyclesRun(a, simplify)
       IN  op' = [name |-> "getcycles", self |-> a, arg |-> simplify,
                  ret |-> [kind |-> "cycles", val |-> run.cycles, halted |-> run.halted]]
    /\ UNCHANGED <<a, b, args, pc, result, order>>

\* eval(repr(a)): the constructor applied to the cycles __repr__ lists.
Reconstruct ==
    /\ pc = "idle"
    /\ LET cs == _getcycles(a, TRUE)
       IN  op' = [name |-> "reconstruct", self |-> a, arg |-> cs, ret |-> perm(cs)]
    /\ UNCHANGED <<a, b, args, pc, result, order>>

\* a.sgn
Sgn ==
    /\ pc = "idle"
    /\ op' = [name |-> "sgn", self |-> a, ret |-> [kind |-> "int", val |-> sgn(a)]]
    /\ UNCHANGED <<a, b, args, pc, result, order>>

\* Products and powers of two objects.
Next ==
    \/ \E l, r \in {"a", "b"} : Mul(l, r)
    \/ \E r \in {"a", "b"}, k \in 0..MaxPow : Pow(r, k)

Spec == Init /\ [][Next]_vars

\* Queries on one object.
InitOne ==
    /\ a \in Constructed
    /\ b = <<>>
    /\ op = NoOp
    /\ args = <<>>
    /\ pc = "idle"
    /\ result = <<>>
    /\ order = 0

NextOne ==
    \/ \E x \in (-(MaxPoint + 1))..(MaxPoint + 1) : Call(x)
    \/ \E simplify \in BOOLEAN : GetCycles(simplify)
    \/ Reconstruct
    \/ Sgn

SpecOne == InitOne /\ [][NextOne]_vars

------------------------------------------------------------------------------
(* The constructor on its own: arguments, then the object *)

InitNew ==
    /\ args \in CycleSeqs \cup {<<>>}
    /\ a = <<>>
    /\ b = <<>>
    /\ op = NoOp
    /\ pc = "new"
    /\ result = <<>>
    /\ order = 0

\* a = perm(*args)
Construct ==
    /\ pc = "new"
    /\ LET ret == perm(args)
       IN  /\ op' = [name |-> "init", ret |-> ret]
           /\ a' = IF ret.kind = "perm" THEN ret.val ELSE a
    /\ pc' = "idle"
    /\ UNCHANGED <<b, args, result, order>>

NextNew == Construct

SpecNew == InitNew /\ [][NextNew]_vars

------------------------------------------------------------------------------
(* The order property, one loop iteration at a time; `a` is self *)

InitOrder ==
    /\ a \in {perm(cs).val : cs \in OrderArgs}
    /\ b = <<>>
    /\ op = NoOp
    /\ args = <<>>
    /\ pc = "order"
    /\ result = <<>>
    /\ order = 0

\* Variant: result = self
OrderEnterNoSquare ==
    /\ pc = "order"
    /\ order' = 1
    /\ result' = a
    /\ pc' = "while"
    /\ UNCHANGED <<a, b, op, args>>

\* order = 1 ; result = self * self
OrderEnter ==
    /\ pc = "order"
    /\ order' = 1
    /\ result' = __mul__(a, a).val
    /\ pc' = "while"
    /\ UNCHANGED <<a, b, op, args>>

\* Variant: the loop without order += 1
OrderLoopNoCount ==
    /\ pc = "while"
    /\ __ne__(result, a)
    /\ result' = __mul__(result, a).val
    /\ UNCHANGED <<a, b, op, args, pc, order>>

\* while result != self: result *= self ; order += 1
OrderLoop ==
    /\ pc = "while"
    /\ __ne__(result, a)
    /\ result' = __mul__(result, a).val
    /\ order' = order + 1
    /\ UNCHANGED <<a, b, op, args, pc>>

\* return order
OrderReturn ==
    /\ pc = "while"
    /\ ~__ne__(result, a)
    /\ op' = [name |-> "order", self |-> a, ret |-> [kind |-> "int", val |-> order]]
    /\ pc' = "done"
    /\ UNCHANGED <<a, b, args, result, order>>

NextOrder == OrderEnter \/ OrderLoop \/ OrderReturn

SpecOrder == InitOrder /\ [][NextOrder]_vars

------------------------------------------------------------------------------
(* Reference notions the claims are stated with *)

\* lookup is a bijection on 1..size: every value of 1..size appears exactly once.
IsBijection(lookup) ==
    /\ Len(lookup) >= 1
    /\ \A i \in 1..Len(lookup) : lookup[i] \in 1..Len(lookup)
    /\ \A v \in 1..Len(lookup) : Cardinality({i \in 1..Len(lookup) : lookup[i] = v}) = 1

\* A permutation as a function of every positive integer: the identity above its size.
Image(lookup, x) == IF x \in 1..Len(lookup) THEN lookup[x] ELSE x

Identity(n) == [i \in 1..n |-> i]

\* The cyclic permutation a cycle denotes: each element to the next, the last
\* to the first, every other point to itself.
CycleImage(c, x) ==
    IF \E j \in 1..Len(c) : c[j] = x
    THEN LET j == CHOOSE j \in 1..Len(c) : c[j] = x
         IN  c[(j % Len(c)) + 1]
    ELSE x

\* x passed through cycles[m] first, then cycles[m-1], ..., cycles[1] last.
RECURSIVE ThroughCycles(_, _, _)
ThroughCycles(cycles, m, x) ==
    IF m = 0 THEN x ELSE ThroughCycles(cycles, m - 1, CycleImage(cycles[m], x))

PointsOf(cycles) == UNION {Range(cycles[c]) : c \in 1..Len(cycles)}

\* f composed with itself k times, as a function on 1..Len(f).
RECURSIVE Iterate(_, _)
Iterate(f, k) ==
    IF k = 0 THEN Identity(Len(f))
    ELSE LET g == Iterate(f, k - 1) IN [x \in 1..Len(f) |-> f[g[x]]]

\* The order of f in the symmetric group.
GroupOrder(f) ==
    CHOOSE k \in 1..(Len(f) * Len(f) + 1) :
        /\ Iterate(f, k) = Identity(Len(f))
        /\ \A j \in 1..(k - 1) : Iterate(f, j) # Identity(Len(f))

\* The length of the orbit of x under f.
OrbitLen(f, x) ==
    CHOOSE k \in 1..Len(f) : Iterate(f, k)[x] = x /\ \A j \in 1..(k - 1) : Iterate(f, j)[x] # x

\* The least common multiple of the cycle lengths of f.
LcmOfCycles(f) ==
    CHOOSE m \in 1..(Len(f) * Len(f) + 1) :
        /\ \A x \in 1..Len(f) : m % OrbitLen(f, x) = 0
        /\ \A j \in 1..(m - 1) : \E x \in 1..Len(f) : j % OrbitLen(f, x) # 0

------------------------------------------------------------------------------
(* Claims *)

\* C1: a(p) returns lookup[p-1] when 1 <= p <= size and fails with an
\* out-of-range error for every p < 1 and every p > size.
C1_CallInRangeOrError ==
    op.name = "call" =>
        IF op.arg \in 1..Len(op.self)
        THEN op.ret = [kind |-> "int", val |-> op.self[op.arg]]
        ELSE op.ret = [kind |-> "error", val |-> "IndexError"]

\* C2: every object built by the constructor from cycles of distinct points
\* (overlapping or not), and every product and power (k >= 1) of such objects,
\* has a lookup table that is a bijection on 1..size.
C2_LookupIsBijection ==
    /\ IsBijection(a)
    /\ IsBijection(b)
    /\ (op.name = "mul" => op.ret.kind = "perm" /\ IsBijection(op.ret.val))
    /\ (op.name = "pow" /\ op.arg >= 1 => op.ret.kind = "perm" /\ IsBijection(op.ret.val))

C2_Witness ==
    /\ op.name = "pow" /\ op.arg >= 2
    /\ op.ret.kind = "perm" /\ op.ret.val # op.self
    /\ op.ret.val # Identity(Len(op.self))
    /\ a = op.ret.val

\* C3: the constructor's object has size = the largest point of any cycle and
\* sends every point i of 1..size to i passed through the last cycle first and
\* the first cycle last.
C3_ConstructComposesRightToLeft ==
    op.name = "init" /\ args # <<>> =>
        /\ op.ret.kind = "perm"
        /\ a = op.ret.val
        /\ Len(a) = Max(PointsOf(args))
        /\ \A i \in 1..Len(a) : a[i] = ThroughCycles(args, Len(args), i)

\* Two cycles that share a point and do not commute.
C3_Witness ==
    /\ op.name = "init" /\ Len(args) = 2
    /\ Range(args[1]) \cap Range(args[2]) # {}
    /\ \E i \in 1..Len(a) :
          ThroughCycles(args, 2, i) # CycleImage(args[2], CycleImage(args[1], i))

\* C4: constructing from the cycles of the simplified decomposition of a gives
\* a again (same size, same images, equal under ==); the decomposition is
\* never empty and its largest point is the size of a.
C4_ReconstructRoundTrip ==
    op.name = "reconstruct" =>
        /\ op.arg # <<>>
        /\ Max(PointsOf(op.arg)) = Len(op.self)
        /\ op.ret.kind = "perm"
        /\ op.ret.val = op.self
        /\ __eq__(op.ret.val, op.self)

\* An object with a trailing fixed point and a moved point.
C4_Witness ==
    /\ op.name = "reconstruct"
    /\ op.self[Len(op.self)] = Len(op.self)
    /\ \E i \in 1..Len(op.self) : op.self[i] # i
    /\ op.ret.kind = "perm"

\* C5: a * b has size max(size a, size b) and maps every x of 1..that size to
\* a(b(x)), a and b being the identity above their own size.
C5_MulIsComposition ==
    op.name = "mul" =>
        /\ op.ret.kind = "perm"
        /\ Len(op.ret.val) = Max({Len(op.self), Len(op.other)})
        /\ \A x \in 1..Len(op.ret.val) :
              op.ret.val[x] = Image(op.self, Image(op.other, x))

\* Two objects of different sizes that do not commute.
C5_Witness ==
    /\ op.name = "mul"
    /\ Len(op.self) # Len(op.other)
    /\ op.ret.kind = "perm"
    /\ \E x \in 1..Len(op.ret.val) :
          Image(op.self, Image(op.other, x)) # Image(op.other, Image(op.self, x))

\* C6: a ** 0 is the identity permutation on the size of a, not an error.
C6_PowZeroIsIdentity ==
    op.name = "pow" /\ op.arg = 0 =>
        op.ret = [kind |-> "perm", val |-> Identity(Len(op.self))]

\* C7: the order loop ends and returns the order of a in the symmetric group:
\* the smallest k >= 1 for which a composed k times is the identity, which is
\* the least common multiple of the cycle lengths.  While the loop runs its
\* counter has not passed that order.
C7_OrderIsGroupOrder ==
    /\ (pc = "while" => order <= GroupOrder(a))
    /\ (pc = "done" =>
            /\ op.ret.val = GroupOrder(a)
            /\ op.ret.val = LcmOfCycles(a))

\* The doctest's permutation of order 6, which no cycle of it has as length.
C7_Witness ==
    /\ pc = "done"
    /\ op.ret.val = 6
    /\ \A x \in 1..Len(a) : OrbitLen(a, x) < 6

\* The smallest k >= from for which a ** (k + n) == a, or 0 when there is none
\* up to the square of the size.
RECURSIVE LeastReturnFrom(_, _, _)
LeastReturnFrom(self, n, from) ==
    IF __eq__(__pow__(self, from + n).val, self) THEN from
    ELSE IF from > Len(self) * Len(self) THEN 0
    ELSE LeastReturnFrom(self, n, from + 1)

LeastReturn(self, n) == LeastReturnFrom(self, n, 1)

\* C8 as stated: order is the smallest k >= 1 for which a ** k == a.
C8_OrderIsLeastPowerEqualToSelf ==
    pc = "done" => op.ret.val = LeastReturn(a, 0)

\* C8 as amended: order is the smallest k >= 1 for which a ** (k + 1) == a,
\* == being the comparison of the string forms.
C8_OrderIsLeastNextPowerEqualToSelf ==
    pc = "done" => op.ret.val = LeastReturn(a, 1)

C8_Witness ==
    /\ pc = "done"
    /\ op.ret.val >= 3
    /\ a[Len(a)] = Len(a)

\* C9: sgn(a * b) = sgn(a) * sgn(b) for objects of equal or different sizes,
\* and sgn is -1 or +1.
C9_SgnIsMultiplicative ==
    /\ sgn(a) \in {-1, 1}
    /\ sgn(b) \in {-1, 1}
    /\ (op.name = "mul" =>
            /\ op.ret.kind = "perm"
            /\ sgn(op.ret.val) = sgn(op.self) * sgn(op.other))

\* Two odd permutations of different sizes with an even product that moves a point.
C9_Witness ==
    /\ op.name = "mul"
    /\ Len(op.self) # Len(op.other)
    /\ sgn(op.self) = -1 /\ sgn(op.other) = -1
    /\ op.ret.kind = "perm"
    /\ sgn(op.ret.val) = 1
    /\ op.ret.val # Identity(Len(op.ret.val))

\* C10: _getcycles(simplify=False) ends; its cycles hold every point of
\* 1..size exactly once; each cycle starts at its lowest point; the cycles
\* come by increasing first point; each element is followed by its image.
C10_FullDecomposition ==
    op.name = "getcycles" /\ op.arg = FALSE =>
        LET cs == op.ret.val
        IN  /\ op.ret.halted
            /\ \A p \in 1..Len(op.self) :
                  Cardinality({<<c, i>> \in (1..Len(cs)) \X (1..Len(op.self)) :
                                  i <= Len(cs[c]) /\ cs[c][i] = p}) = 1
            /\ PointsOf(cs) = 1..Len(op.self)
            /\ \A c \in 1..Len(cs) :
                  /\ \A i \in 1..Len(cs[c]) : cs[c][1] <= cs[c][i]
                  /\ \A i \in 1..Len(cs[c]) :
                        op.self[cs[c][i]] = cs[c][(i % Len(cs[c])) + 1]
            /\ \A c, d \in 1..Len(cs) : c < d => cs[c][1] < cs[d][1]

\* A fixed point listed between the elements' cycles: (1 3)(2).
C10_Witness ==
    /\ op.name = "getcycles" /\ op.arg = FALSE
    /\ op.ret.halted
    /\ Len(op.ret.val) >= 2
    /\ Len(op.ret.val[1]) >= 2
    /\ Len(op.ret.val[2]) = 1

====
